---- MODULE Spec2Model ----
(***************************************************************************)
(* A model of the screeps-game-api binding layer:                          *)
(*   - the FindOptions builder of src/objects/impls/room.rs, its           *)
(*     serialisation into the host parameter object (as_js_options) and    *)
(*     the cost-callback bridge the host invokes during a path search;     *)
(*   - the constant tables and conversions of src/constants.rs.            *)
(*                                                                         *)
(* Spec      : the builder / as_js_options / host call life cycle.         *)
(* ConstSpec : the pure functions of constants.rs and the Room queries of  *)
(*             room.rs, applied to inputs drawn from bounded sets.         *)
(***************************************************************************)
EXTENDS Integers, Sequences, FiniteSets, TLC

VARIABLES
    pc,            \* position of the Rust side: building, in_callback, ...
    fo,            \* the FindOptions value under construction / consumed
    lastOp,        \* history: the last builder operation and its argument
    lastArg,       \* history: per knob, the argument of the last setter call
    nSetters,      \* history: number of setter calls in this chain
    js_options,    \* the JsFindOptions object handed to `callback`
    closure,       \* host-visible closure: "none", "valid", "invalid"
    owned_alive,   \* the stack-held owned_callback is alive
    hostCalls,     \* number of host invocations of costCallback
    userCalls,     \* number of invocations of the user callback
    lastHost,      \* arguments of the last host invocation
    lastUser,      \* arguments the user callback last received
    hostRet,       \* what the last host invocation got back
    dangling,      \* the lifetime-erased reference was used after its target died
    op,            \* ConstSpec: the function applied last
    argv,          \* ConstSpec: its input, tagged with the function
    resv           \* ConstSpec: its result, tagged with the function

optVars == <<fo, lastOp, lastArg, nSetters>>
bridgeVars == <<js_options, closure, owned_alive, hostCalls, userCalls, lastHost, lastUser, hostRet, dangling>>
constVars == <<op, argv, resv>>
vars == <<pc, fo, lastOp, lastArg, nSetters, js_options, closure, owned_alive, hostCalls, userCalls, lastHost, lastUser, hostRet, dangling, op, argv, resv>>

\* the input and the result of the function applied last; each is stored
\* under the name of its function, so that values of two functions, which
\* differ in type, are told apart by the name alone
arg == argv.v
res == resv.v

(***************************************************************************)
(* Bounds of the model.                                                    *)
(***************************************************************************)
\* longest chain of setter calls on one FindOptions
MaxSetterCalls == 2
\* most host invocations of costCallback on one closure
MaxHostCalls == 2

(***************************************************************************)
(* Option<T>: None is the empty tuple, Some(v) the one-element tuple.      *)
(***************************************************************************)
None == << >>
Some(v) == << v >>
IsSome(o) == Len(o) = 1
Unwrap(o) == o[1]

(***************************************************************************)
(* Argument values the setters are called with.                            *)
(***************************************************************************)
BoolVals == {TRUE, FALSE}
\* u32 operation budgets
MaxOpsVals == {2000, 5000}
\* f64 weights, in tenths (12 is 1.2)
WeightVals == {12, 30}
\* u8 room counts: below, at and above the documented maximum
MaxRoomsVals == {1, 16, 17}
\* u32 ranges
RangeVals == {0, 3}
\* u8 terrain costs
PlainCostVals == {1, 2}
SwampCostVals == {5, 10}

\* the callbacks a caller can supply, and the default one of FindOptions::default
UserCallbacks == {"cbA", "cbB"}
DefaultCallback == "default"

\* the knob fields of FindOptions, in declaration order
Knobs == {"ignore_creeps", "ignore_destructible_structures", "max_ops", "heuristic_weight", "serialize", "max_rooms", "range", "plain_cost", "swamp_cost"}

\* the arguments a knob's setter accepts
KnobVals(k) ==
    CASE k = "ignore_creeps" -> BoolVals
      [] k = "ignore_destructible_structures" -> BoolVals
      [] k = "max_ops" -> MaxOpsVals
      [] k = "heuristic_weight" -> WeightVals
      [] k = "serialize" -> BoolVals
      [] k = "max_rooms" -> MaxRoomsVals
      [] k = "range" -> RangeVals
      [] k = "plain_cost" -> PlainCostVals
      [] k = "swamp_cost" -> SwampCostVals

(***************************************************************************)
(* FindOptions::default and FindOptions::new.                              *)
(***************************************************************************)
\* a faulty variant: the documented default of max_rooms is filled in
FindOptions_default_max_rooms_16 ==
    [ignore_creeps |-> None,
     ignore_destructible_structures |-> None,
     cost_callback |-> DefaultCallback,
     max_ops |-> None,
     heuristic_weight |-> None,
     serialize |-> None,
     max_rooms |-> Some(16),
     range |-> None,
     plain_cost |-> None,
     swamp_cost |-> None]

\* impl Default for FindOptions
FindOptions_default ==
    [ignore_creeps |-> None,
     ignore_destructible_structures |-> None,
     cost_callback |-> DefaultCallback,
     max_ops |-> None,
     heuristic_weight |-> None,
     serialize |-> None,
     max_rooms |-> None,
     range |-> None,
     plain_cost |-> None,
     swamp_cost |-> None]

\* FindOptions::new
FindOptions_new == FindOptions_default

(***************************************************************************)
(* The setters: each takes self by value and returns it with one field     *)
(* overwritten.                                                            *)
(***************************************************************************)
ignore_creeps(self, ignore) == [self EXCEPT !.ignore_creeps = Some(ignore)]

ignore_destructible_structures(self, ignore) == [self EXCEPT !.ignore_destructible_structures = Some(ignore)]

max_ops(self, ops) == [self EXCEPT !.max_ops = Some(ops)]

heuristic_weight(self, weight) == [self EXCEPT !.heuristic_weight = Some(weight)]

serialize(self, s) == [self EXCEPT !.serialize = Some(s)]

max_rooms(self, rooms) == [self EXCEPT !.max_rooms = Some(rooms)]

range(self, k) == [self EXCEPT !.range = Some(k)]

\* a faulty variant: the plain cost is stored in the swamp_cost field
plain_cost_into_swamp(self, cost) == [self EXCEPT !.swamp_cost = Some(cost)]

plain_cost(self, cost) == [self EXCEPT !.plain_cost = Some(cost)]

swamp_cost(self, cost) == [self EXCEPT !.swamp_cost = Some(cost)]

\* a faulty variant: the range field is left out of the rebuilt struct
cost_callback_losing_range(self, cb) ==
    [ignore_creeps |-> self.ignore_creeps,
     ignore_destructible_structures |-> self.ignore_destructible_structures,
     cost_callback |-> cb,
     max_ops |-> self.max_ops,
     heuristic_weight |-> self.heuristic_weight,
     serialize |-> self.serialize,
     max_rooms |-> self.max_rooms,
     range |-> None,
     plain_cost |-> self.plain_cost,
     swamp_cost |-> self.swamp_cost]

\* cost_callback destructures self, drops the old callback and rebuilds the
\* struct field by field around the new one
cost_callback(self, cb) ==
    [ignore_creeps |-> self.ignore_creeps,
     ignore_destructible_structures |-> self.ignore_destructible_structures,
     cost_callback |-> cb,
     max_ops |-> self.max_ops,
     heuristic_weight |-> self.heuristic_weight,
     serialize |-> self.serialize,
     max_rooms |-> self.max_rooms,
     range |-> self.range,
     plain_cost |-> self.plain_cost,
     swamp_cost |-> self.swamp_cost]

\* the setter of knob k, by name
ApplySetter(self, k, v) ==
    CASE k = "ignore_creeps" -> ignore_creeps(self, v)
      [] k = "ignore_destructible_structures" -> ignore_destructible_structures(self, v)
      [] k = "max_ops" -> max_ops(self, v)
      [] k = "heuristic_weight" -> heuristic_weight(self, v)
      [] k = "serialize" -> serialize(self, v)
      [] k = "max_rooms" -> max_rooms(self, v)
      [] k = "range" -> range(self, v)
      [] k = "plain_cost" -> plain_cost(self, v)
      [] k = "swamp_cost" -> swamp_cost(self, v)

NoArgs == [k \in Knobs |-> None]

(***************************************************************************)
(* The host side of the bridge: what the host passes to costCallback.      *)
(***************************************************************************)
\* host strings that parse as room names, and one that does not
ValidRoomStrings == {"W1N2", "E3S4"}
HostStrings == ValidRoomStrings \cup {"bogus"}
CostMatrices == {"m1", "m2"}

\* JsString -> RoomName (try_into): a RoomName, or a parse error
ParseRoomName(s) ==
    IF s \in ValidRoomStrings THEN [ok |-> TRUE, room |-> [room_name |-> s]]
    ELSE [ok |-> FALSE]

\* R::default() of the callback result type
RDefault == [result |-> "R::default"]

\* calling the callback stored in FindOptions: the default one ignores both
\* arguments, a caller's one answers from what it is given
CallCallback(cb, room, cost_matrix) ==
    IF cb = DefaultCallback THEN RDefault
    ELSE [result |-> "user", by |-> cb, room |-> room, matrix |-> cost_matrix]

\* R -> JsValue (into)
IntoJsValue(r) == [js_value_of |-> r]

\* owned_callback: the user callback with its result converted for the host
owned_callback(raw_callback, room, cost_matrix) ==
    IntoJsValue(CallCallback(raw_callback, room, cost_matrix))

(***************************************************************************)
(* boxed_callback, the body of the closure the host calls: parse the room  *)
(* name (panic when it does not parse), then call through the lifetime-    *)
(* erased reference.  The outcome lists the user-callback invocations made *)
(* and what goes back to the host.                                         *)
(***************************************************************************)
Panic(msg) == [kind |-> "panic", calls |-> << >>, msg |-> msg]
Returned(calls, value) == [kind |-> "return", calls |-> calls, value |-> value]

\* a faulty variant: the room name is not checked before the user callback runs
boxed_callback_unchecked(raw_callback, room, cost_matrix) ==
    Returned(<< <<raw_callback, [room_name |-> room], cost_matrix>> >>,
             owned_callback(raw_callback, [room_name |-> room], cost_matrix))

boxed_callback(raw_callback, room, cost_matrix) ==
    LET parsed == ParseRoomName(room) IN
    IF ~parsed.ok THEN Panic("expected room name in cost callback")
    ELSE Returned(<< <<raw_callback, parsed.room, cost_matrix>> >>,
                  owned_callback(raw_callback, parsed.room, cost_matrix))

(***************************************************************************)
(* JsFindOptions: a host object, modelled as a function from the names of  *)
(* the properties that were set to their values.                           *)
(***************************************************************************)
JsFindOptions_new == [p \in {} |-> None]

JsSet(obj, prop, v) == [q \in (DOMAIN obj) \cup {prop} |-> IF q = prop THEN v ELSE obj[q]]

\* the host function wrapping the Rust closure
ClosureHandle == "Closure::wrap(boxed_callback)"

\* a faulty variant: plainCost is written from the swamp_cost field
as_js_options_object_swapped(self) ==
    LET o0 == JsSet(JsFindOptions_new, "costCallback", ClosureHandle)
        o1 == IF IsSome(self.ignore_creeps) THEN JsSet(o0, "ignoreCreeps", Unwrap(self.ignore_creeps)) ELSE o0
        o2 == IF IsSome(self.ignore_destructible_structures) THEN JsSet(o1, "ignoreDestructibleStructures", Unwrap(self.ignore_destructible_structures)) ELSE o1
        o3 == IF IsSome(self.max_ops) THEN JsSet(o2, "maxOps", Unwrap(self.max_ops)) ELSE o2
        o4 == IF IsSome(self.heuristic_weight) THEN JsSet(o3, "heuristicWeight", Unwrap(self.heuristic_weight)) ELSE o3
        o5 == IF IsSome(self.serialize) THEN JsSet(o4, "serialize", Unwrap(self.serialize)) ELSE o4
        o6 == IF IsSome(self.max_rooms) THEN JsSet(o5, "maxRooms", Unwrap(self.max_rooms)) ELSE o5
        o7 == IF IsSome(self.range) THEN JsSet(o6, "range", Unwrap(self.range)) ELSE o6
        o8 == IF IsSome(self.swamp_cost) THEN JsSet(o7, "plainCost", Unwrap(self.swamp_cost)) ELSE o7
        o9 == IF IsSome(self.swamp_cost) THEN JsSet(o8, "swampCost", Unwrap(self.swamp_cost)) ELSE o8
    IN o9

\* the object as_js_options builds before it calls `callback`
as_js_options_object(self) ==
    LET o0 == JsSet(JsFindOptions_new, "costCallback", ClosureHandle)
        o1 == IF IsSome(self.ignore_creeps) THEN JsSet(o0, "ignoreCreeps", Unwrap(self.ignore_creeps)) ELSE o0
        o2 == IF IsSome(self.ignore_destructible_structures) THEN JsSet(o1, "ignoreDestructibleStructures", Unwrap(self.ignore_destructible_structures)) ELSE o1
        o3 == IF IsSome(self.max_ops) THEN JsSet(o2, "maxOps", Unwrap(self.max_ops)) ELSE o2
        o4 == IF IsSome(self.heuristic_weight) THEN JsSet(o3, "heuristicWeight", Unwrap(self.heuristic_weight)) ELSE o3
        o5 == IF IsSome(self.serialize) THEN JsSet(o4, "serialize", Unwrap(self.serialize)) ELSE o4
        o6 == IF IsSome(self.max_rooms) THEN JsSet(o5, "maxRooms", Unwrap(self.max_rooms)) ELSE o5
        o7 == IF IsSome(self.range) THEN JsSet(o6, "range", Unwrap(self.range)) ELSE o6
        o8 == IF IsSome(self.plain_cost) THEN JsSet(o7, "plainCost", Unwrap(self.plain_cost)) ELSE o7
        o9 == IF IsSome(self.swamp_cost) THEN JsSet(o8, "swampCost", Unwrap(self.swamp_cost)) ELSE o8
    IN o9

\* a faulty variant: the closure is leaked (Closure::forget) instead of dropped
closure_forget(c) == c

\* dropping the Closure at the end of as_js_options invalidates the host function
closure_drop(c) == "invalid"

\* what the host gets from a function whose Closure was dropped
ThrownInvalidClosure == [kind |-> "throw", calls |-> << >>, msg |-> "closure invoked after being dropped"]

\* outcomes of calling through the erased reference after its target died:
\* the build may run anything, so every outcome is possible
DanglingOutcomes(raw_callback, room, cost_matrix) ==
    {Panic("undefined behaviour"), boxed_callback_unchecked(raw_callback, room, cost_matrix)}

NoCall == << >>
NoObject == [p \in {} |-> None]

(***************************************************************************)
(* Spec: the life cycle of one FindOptions.                                *)
(*   building --as_js_options--> in_callback --(callback returns)-->       *)
(*   closure_dropped --> returned;  a bad room name ends in panicked.      *)
(***************************************************************************)
BridgeIdle ==
    /\ js_options = NoObject
    /\ closure = "none"
    /\ owned_alive = FALSE
    /\ hostCalls = 0
    /\ userCalls = 0
    /\ lastHost = NoCall
    /\ lastUser = NoCall
    /\ hostRet = [kind |-> "none"]
    /\ dangling = FALSE

ConstIdle ==
    /\ op = "idle"
    /\ argv = [op |-> "idle", v |-> 0]
    /\ resv = [op |-> "idle", v |-> 0]

Init ==
    /\ pc = "building"
    /\ fo = FindOptions_new
    /\ lastOp = [name |-> "new"]
    /\ lastArg = NoArgs
    /\ nSetters = 0
    /\ BridgeIdle
    /\ ConstIdle

\* a fresh chain: every history and bridge variable starts over
FreshChain ==
    /\ lastArg' = NoArgs
    /\ nSetters' = 0
    /\ js_options' = NoObject
    /\ closure' = "none"
    /\ owned_alive' = FALSE
    /\ hostCalls' = 0
    /\ userCalls' = 0
    /\ lastHost' = NoCall
    /\ lastUser' = NoCall
    /\ hostRet' = [kind |-> "none"]
    /\ dangling' = FALSE
    /\ UNCHANGED constVars

New ==
    /\ pc \in {"building", "returned"}
    /\ pc' = "building"
    /\ fo' = FindOptions_new
    /\ lastOp' = [name |-> "new"]
    /\ FreshChain

Default ==
    /\ pc \in {"building", "returned"}
    /\ pc' = "building"
    /\ fo' = FindOptions_default
    /\ lastOp' = [name |-> "default"]
    /\ FreshChain

\* what every setter call leaves alone, and the history it writes
SetterFrame(k, v) ==
    /\ lastOp' = [name |-> k]
    /\ lastArg' = [lastArg EXCEPT ![k] = Some(v)]
    /\ nSetters' = nSetters + 1
    /\ UNCHANGED <<pc, bridgeVars, constVars>>

IgnoreCreeps ==
    \E v \in BoolVals :
        /\ pc = "building"
        /\ nSetters < MaxSetterCalls
        /\ fo' = ignore_creeps(fo, v)
        /\ SetterFrame("ignore_creeps", v)

IgnoreDestructibleStructures ==
    \E v \in BoolVals :
        /\ pc = "building"
        /\ nSetters < MaxSetterCalls
        /\ fo' = ignore_destructible_structures(fo, v)
        /\ SetterFrame("ignore_destructible_structures", v)

MaxOps ==
    \E v \in MaxOpsVals :
        /\ pc = "building"
        /\ nSetters < MaxSetterCalls
        /\ fo' = max_ops(fo, v)
        /\ SetterFrame("max_ops", v)

HeuristicWeight ==
    \E v \in WeightVals :
        /\ pc = "building"
        /\ nSetters < MaxSetterCalls
        /\ fo' = heuristic_weight(fo, v)
        /\ SetterFrame("heuristic_weight", v)

Serialize ==
    \E v \in BoolVals :
        /\ pc = "building"
        /\ nSetters < MaxSetterCalls
        /\ fo' = serialize(fo, v)
        /\ SetterFrame("serialize", v)

MaxRooms ==
    \E v \in MaxRoomsVals :
        /\ pc = "building"
        /\ nSetters < MaxSetterCalls
        /\ fo' = max_rooms(fo, v)
        /\ SetterFrame("max_rooms", v)

Range ==
    \E v \in RangeVals :
        /\ pc = "building"
        /\ nSetters < MaxSetterCalls
        /\ fo' = range(fo, v)
        /\ SetterFrame("range", v)

PlainCost ==
    \E v \in PlainCostVals :
        /\ pc = "building"
        /\ nSetters < MaxSetterCalls
        /\ fo' = plain_cost(fo, v)
        /\ SetterFrame("plain_cost", v)

SwampCost ==
    \E v \in SwampCostVals :
        /\ pc = "building"
        /\ nSetters < MaxSetterCalls
        /\ fo' = swamp_cost(fo, v)
        /\ SetterFrame("swamp_cost", v)

CostCallback ==
    \E cb \in UserCallbacks :
        /\ pc = "building"
        /\ fo' = cost_callback(fo, cb)
        /\ lastOp' = [name |-> "cost_callback", cb |-> cb]
        /\ UNCHANGED <<pc, lastArg, nSetters, bridgeVars, constVars>>

\* as_js_options up to the call of `callback`: the callback moves to the
\* stack, the closure is wrapped, the object is filled
AsJsOptions ==
    /\ pc = "building"
    /\ pc' = "in_callback"
    /\ owned_alive' = TRUE
    /\ closure' = "valid"
    /\ js_options' = as_js_options_object(fo)
    /\ lastOp' = [name |-> "as_js_options"]
    /\ UNCHANGED <<fo, lastArg, nSetters, hostCalls, userCalls, lastHost, lastUser, hostRet, dangling, constVars>>

\* the host calls the costCallback function it was given: while `callback`
\* runs, or later if it kept the function
HostInvoke ==
    \E room \in HostStrings, cost_matrix \in CostMatrices :
        /\ pc \in {"in_callback", "returned"}
        /\ closure # "none"
        /\ hostCalls < MaxHostCalls
        /\ \E out \in (IF closure = "invalid" THEN {ThrownInvalidClosure}
                        ELSE IF owned_alive THEN {boxed_callback(fo.cost_callback, room, cost_matrix)}
                        ELSE DanglingOutcomes(fo.cost_callback, room, cost_matrix)) :
              /\ hostCalls' = hostCalls + 1
              /\ lastHost' = <<room, cost_matrix>>
              /\ userCalls' = userCalls + Len(out.calls)
              /\ lastUser' = IF Len(out.calls) > 0 THEN out.calls[Len(out.calls)] ELSE lastUser
              /\ hostRet' = [kind |-> out.kind, value |-> IF out.kind = "return" THEN out.value ELSE out.msg]
              /\ dangling' = (dangling \/ (closure = "valid" /\ ~owned_alive))
              /\ pc' = IF out.kind = "panic" THEN "panicked" ELSE pc
        /\ UNCHANGED <<optVars, js_options, closure, owned_alive, constVars>>

\* `callback` returns; the locals drop in reverse order of declaration:
\* first js_options and the closure ...
CallbackReturns ==
    /\ pc = "in_callback"
    /\ pc' = "closure_dropped"
    /\ closure' = closure_drop(closure)
    /\ UNCHANGED <<optVars, js_options, owned_alive, hostCalls, userCalls, lastHost, lastUser, hostRet, dangling, constVars>>

\* ... then owned_callback, and as_js_options returns
DropOwnedCallback ==
    /\ pc = "closure_dropped"
    /\ pc' = "returned"
    /\ owned_alive' = FALSE
    /\ UNCHANGED <<optVars, js_options, closure, hostCalls, userCalls, lastHost, lastUser, hostRet, dangling, constVars>>

Next ==
    \/ New
    \/ Default
    \/ IgnoreCreeps
    \/ IgnoreDestructibleStructures
    \/ MaxOps
    \/ HeuristicWeight
    \/ Serialize
    \/ MaxRooms
    \/ Range
    \/ PlainCost
    \/ SwampCost
    \/ CostCallback
    \/ AsJsOptions
    \/ HostInvoke
    \/ CallbackReturns
    \/ DropOwnedCallback

Spec == Init /\ [][Next]_vars

(***************************************************************************)
(* Properties of the builder and the bridge, checked under Spec.           *)
(***************************************************************************)
\* the host property each JsFindOptions setter writes, per knob
JsProperty(k) ==
    CASE k = "ignore_creeps" -> "ignoreCreeps"
      [] k = "ignore_destructible_structures" -> "ignoreDestructibleStructures"
      [] k = "max_ops" -> "maxOps"
      [] k = "heuristic_weight" -> "heuristicWeight"
      [] k = "serialize" -> "serialize"
      [] k = "max_rooms" -> "maxRooms"
      [] k = "range" -> "range"
      [] k = "plain_cost" -> "plainCost"
      [] k = "swamp_cost" -> "swampCost"

Serialized == pc \in {"in_callback", "closure_dropped", "returned", "panicked"}

\* C1: once as_js_options has built the parameter object, each of the nine
\* knob properties is present in it if and only if the FindOptions field is
\* Some(v), and then holds exactly v; nothing else is written except
\* costCallback, which is always present.
C1_KnobsSerializedIffSome ==
    Serialized =>
        /\ \A k \in Knobs : (JsProperty(k) \in DOMAIN js_options) <=> IsSome(fo[k])
        /\ \A k \in Knobs : IsSome(fo[k]) => js_options[JsProperty(k)] = Unwrap(fo[k])
        /\ "costCallback" \in DOMAIN js_options
        /\ DOMAIN js_options \subseteq {JsProperty(k) : k \in Knobs} \cup {"costCallback"}

\* C1 witness: an object built from options with plain_cost set, swamp_cost
\* unset and no callback supplied by the caller
C1_Witness ==
    /\ pc = "in_callback"
    /\ fo.plain_cost = Some(2)
    /\ fo.swamp_cost = None
    /\ fo.ignore_creeps = Some(FALSE)
    /\ fo.cost_callback = DefaultCallback
    /\ DOMAIN js_options = {"costCallback", "plainCost", "ignoreCreeps"}
    /\ js_options["plainCost"] = 2
    /\ js_options["ignoreCreeps"] = FALSE

\* C2: the user callback only ever runs while `callback` is running, with the
\* stack-held callback alive; the closure is invalid whenever the stack-held
\* callback is dead, the erased reference is never used after its target
\* died, and a host call made after as_js_options returned throws without
\* reaching the user callback.
C2_BridgeSafe ==
    [][/\ ~dangling'
       /\ (~owned_alive' /\ closure' # "none" => closure' = "invalid")
       /\ (userCalls' > userCalls => pc = "in_callback" /\ owned_alive /\ closure = "valid")
       /\ (hostCalls' > hostCalls /\ pc = "returned" =>
              userCalls' = userCalls /\ lastUser' = lastUser /\ hostRet'.kind = "throw")]_vars

\* C2 witness: the host reached the user callback during the search, kept the
\* function, called it again after the return and got an exception
C2_Witness ==
    /\ pc = "returned"
    /\ hostCalls = 2
    /\ userCalls = 1
    /\ hostRet.kind = "throw"
    /\ fo.cost_callback \in UserCallbacks

\* setters of different knobs commute on the value o
SettersCommute(o) ==
    \A k1 \in Knobs, k2 \in Knobs :
        k1 # k2 =>
            \A v1 \in KnobVals(k1), v2 \in KnobVals(k2) :
                ApplySetter(ApplySetter(o, k1, v1), k2, v2) = ApplySetter(ApplySetter(o, k2, v2), k1, v1)

\* C3: along any chain of setter calls from FindOptions::new(), every knob
\* holds Some(argument of the last call of its setter), or None when that
\* setter was never called; a setter call changes its own field only, leaving
\* the other eight knobs and the cost callback as they were, and setters of
\* different knobs commute.
C3_SettersLastWriteWins ==
    [][/\ \A k \in Knobs : fo'[k] = lastArg'[k]
       /\ (nSetters' = nSetters + 1 =>
              /\ IsSome(fo'[lastOp'.name])
              /\ \A j \in Knobs \ {lastOp'.name} : fo'[j] = fo[j]
              /\ fo'.cost_callback = fo.cost_callback)
       /\ (nSetters' = 1 => SettersCommute(fo'))]_vars

\* C3 witness: a chain in which the max_ops setter was called twice, after
\* which the field holds the argument of the later call
C3_Witness ==
    /\ pc = "building"
    /\ nSetters >= 2
    /\ Cardinality({k \in Knobs : IsSome(fo[k])}) = nSetters - 1
    /\ lastOp.name = "max_ops"
    /\ fo.max_ops = Some(5000)
    /\ lastArg.max_ops = Some(5000)

\* C4: a cost_callback call yields the new callback and the same nine knobs,
\* wherever in the chain it is made.
C4_CostCallbackKeepsKnobs ==
    [][lastOp'.name = "cost_callback" =>
          /\ fo'.cost_callback = lastOp'.cb
          /\ \A k \in Knobs : fo'[k] = fo[k]]_vars

\* C4 witness: cost_callback called in the middle of a chain, on a receiver
\* with knobs set and another callback installed
C4_Witness ==
    /\ lastOp.name = "cost_callback"
    /\ lastOp.cb = "cbB"
    /\ fo.cost_callback = "cbB"
    /\ nSetters >= 1
    /\ nSetters < MaxSetterCalls
    /\ IsSome(fo.range)

\* C5: FindOptions::new() and FindOptions::default() are the same value: all
\* nine knobs None, and a callback that answers R::default() for every room
\* name and cost matrix.
C5_NewIsDefaultAllNone ==
    lastOp.name \in {"new", "default"} =>
        /\ fo = FindOptions_new
        /\ fo = FindOptions_default
        /\ \A k \in Knobs : fo[k] = None
        /\ \A room \in ValidRoomStrings, cost_matrix \in CostMatrices :
              CallCallback(fo.cost_callback, [room_name |-> room], cost_matrix) = RDefault

\* C5 witness: a value just made by FindOptions::default()
C5_Witness ==
    /\ lastOp.name = "default"
    /\ pc = "building"
    /\ nSetters = 0

\* C6: a host call of costCallback(n, m) made while `callback` runs invokes
\* the user callback exactly once, with the parsed n and the same m, and hands
\* the host exactly the converted result; when n is no room name the bridge
\* panics and the user callback is not invoked.
C6_CallbackForwarded ==
    [][hostCalls' = hostCalls + 1 /\ pc = "in_callback" =>
          LET n == lastHost'[1]
              m == lastHost'[2]
          IN IF n \in ValidRoomStrings
             THEN /\ userCalls' = userCalls + 1
                  /\ lastUser' = <<fo.cost_callback, [room_name |-> n], m>>
                  /\ hostRet' = [kind |-> "return", value |-> [js_value_of |-> CallCallback(fo.cost_callback, [room_name |-> n], m)]]
                  /\ pc' = "in_callback"
             ELSE /\ userCalls' = userCalls
                  /\ lastUser' = lastUser
                  /\ hostRet'.kind = "panic"
                  /\ pc' = "panicked"]_vars

\* C6 witness: one forwarded call, then a call with an unparseable name
C6_Witness ==
    /\ pc = "panicked"
    /\ hostCalls = 2
    /\ userCalls = 1
    /\ lastHost[1] = "bogus"
    /\ lastUser[1] \in UserCallbacks

(***************************************************************************)
(* constants.rs: enums, conversions and tables.                            *)
(***************************************************************************)
\* host integers tried as status codes lie in -MaxCode .. MaxCode
MaxCode == 45
\* controller levels tried lie in 0 .. MaxLevel
MaxLevel == 10

Ok(v) == [ok |-> TRUE, val |-> v]
Err(e) == [ok |-> FALSE, val |-> e]
Unit == "()"

\* enum ReturnCode with its #[repr(i32)] discriminants
ReturnCodeValue ==
    [Ok |-> 0, NotOwner |-> -1, NoPath |-> -2, NameExists |-> -3, Busy |-> -4,
     NotFound |-> -5, NotEnough |-> -6, InvalidTarget |-> -7, Full |-> -8,
     NotInRange |-> -9, InvalidArgs |-> -10, Tired |-> -11, NoBodypart |-> -12,
     RclNotEnough |-> -14, GclNotEnough |-> -15, Other |-> 42]

ReturnCode == DOMAIN ReturnCodeValue

\* a faulty variant: every non-negative code counts as success
as_result_nonnegative(self) == IF ReturnCodeValue[self] >= 0 THEN Ok(Unit) ELSE Err(self)

\* ReturnCode::as_result
as_result(self) == IF self = "Ok" THEN Ok(Unit) ELSE Err(self)

\* ReturnCode::from_i32, derived by FromPrimitive: the variant with that
\* discriminant, if there is one
from_i32(x) ==
    IF \E c \in ReturnCode : ReturnCodeValue[c] = x
    THEN Some(CHOOSE c \in ReturnCode : ReturnCodeValue[c] = x)
    ELSE None

\* Host values (stdweb Value).  A number is integral within i32, fractional,
\* or outside the i32 range; n is its value when integral.
HostNumbers ==
    {[kind |-> "number", class |-> "integral", n |-> x] : x \in -MaxCode .. MaxCode}
        \cup {[kind |-> "number", class |-> c, n |-> 0] : c \in {"fractional", "out_of_i32_range"}}

HostValues ==
    HostNumbers \cup {[kind |-> k, class |-> "none", n |-> 0] : k \in {"undefined", "null", "bool", "string", "reference"}}

\* Value -> i32 (try_into): only a number that is an integer within i32
ValueToI32(v) ==
    IF v.kind = "number" /\ v.class = "integral" THEN Ok(v.n) ELSE Err("ConversionError")

\* Number -> i32 (try_into)
NumberToI32(v) ==
    IF v.class = "integral" THEN Ok(v.n) ELSE Err("ConversionError")

\* a faulty variant: an undeclared code is an error instead of Other
ReturnCode_try_from_Value_strict(v) ==
    LET x == ValueToI32(v) IN
    IF ~x.ok THEN Err(x.val)
    ELSE IF IsSome(from_i32(x.val)) THEN Ok(Unwrap(from_i32(x.val))) ELSE Err("ConversionError")

\* impl TryFrom<Value> for ReturnCode
ReturnCode_try_from_Value(v) ==
    LET x == ValueToI32(v) IN
    IF ~x.ok THEN Err(x.val)
    ELSE Ok(IF IsSome(from_i32(x.val)) THEN Unwrap(from_i32(x.val)) ELSE "Other")

\* impl TryFrom<Number> for ReturnCode
ReturnCode_try_from_Number(v) ==
    LET x == NumberToI32(v) IN
    IF ~x.ok THEN Err(x.val)
    ELSE Ok(IF IsSome(from_i32(x.val)) THEN Unwrap(from_i32(x.val)) ELSE "Other")

\* enum Direction with its #[repr(u32)] discriminants
DirectionValue ==
    [Top |-> 1, TopRight |-> 2, Right |-> 3, BottomRight |-> 4,
     Bottom |-> 5, BottomLeft |-> 6, Left |-> 7, TopLeft |-> 8]

Direction == DOMAIN DirectionValue

\* a faulty variant: the diagonals are mirrored left to right instead of negated
neg_mirrored(self) ==
    CASE self = "Top" -> "Bottom"
      [] self = "TopRight" -> "TopLeft"
      [] self = "Right" -> "Left"
      [] self = "BottomRight" -> "BottomLeft"
      [] self = "Bottom" -> "Top"
      [] self = "BottomLeft" -> "BottomRight"
      [] self = "Left" -> "Right"
      [] self = "TopLeft" -> "TopRight"

\* impl Neg for Direction
neg(self) ==
    CASE self = "Top" -> "Bottom"
      [] self = "TopRight" -> "BottomLeft"
      [] self = "Right" -> "Left"
      [] self = "BottomRight" -> "TopLeft"
      [] self = "Bottom" -> "Top"
      [] self = "BottomLeft" -> "TopRight"
      [] self = "Left" -> "Right"
      [] self = "TopLeft" -> "BottomRight"

\* controller_levels: progress needed to leave the given controller level
controller_levels(current_rcl) ==
    CASE current_rcl = 1 -> 200
      [] current_rcl = 2 -> 45000
      [] current_rcl = 3 -> 135000
      [] current_rcl = 4 -> 405000
      [] current_rcl = 5 -> 1215000
      [] current_rcl = 6 -> 3645000
      [] current_rcl = 7 -> 10935000
      [] OTHER -> 0

(***************************************************************************)
(* ConstSpec: each action applies one function of constants.rs to an input *)
(* and records the result.                                                 *)
(***************************************************************************)
ConstFrame == UNCHANGED <<pc, optVars, bridgeVars>>

AsResult ==
    \E c \in ReturnCode :
        /\ op' = "as_result"
        /\ argv' = [op |-> "as_result", v |-> c]
        /\ resv' = [op |-> "as_result", v |-> as_result(c)]
        /\ ConstFrame

TryFromValue ==
    \E v \in HostValues :
        /\ op' = "ReturnCode::try_from(Value)"
        /\ argv' = [op |-> "ReturnCode::try_from(Value)", v |-> v]
        /\ resv' = [op |-> "ReturnCode::try_from(Value)", v |-> ReturnCode_try_from_Value(v)]
        /\ ConstFrame

TryFromNumber ==
    \E v \in HostNumbers :
        /\ op' = "ReturnCode::try_from(Number)"
        /\ argv' = [op |-> "ReturnCode::try_from(Number)", v |-> v]
        /\ resv' = [op |-> "ReturnCode::try_from(Number)", v |-> ReturnCode_try_from_Number(v)]
        /\ ConstFrame

NegDirection ==
    \E d \in Direction :
        /\ op' = "neg"
        /\ argv' = [op |-> "neg", v |-> d]
        /\ resv' = [op |-> "neg", v |-> neg(d)]
        /\ ConstFrame

ControllerLevels ==
    \E l \in 0 .. MaxLevel :
        /\ op' = "controller_levels"
        /\ argv' = [op |-> "controller_levels", v |-> l]
        /\ resv' = [op |-> "controller_levels", v |-> controller_levels(l)]
        /\ ConstFrame

(***************************************************************************)
(* constants.rs: ResourceType, its reaction times and its decoding.        *)
(***************************************************************************)
\* enum ResourceType with its #[repr(u32)] discriminants
ResourceTypeValue ==
    [Energy |-> 1, Power |-> 2, Hydrogen |-> 3, Oxygen |-> 4,
     Utrium |-> 5, Lemergium |-> 6, Keanium |-> 7, Zynthium |-> 8,
     Catalyst |-> 9, Ghodium |-> 10, Hydroxide |-> 11, ZynthiumKeanite |-> 12,
     UtriumLemergite |-> 13, UtriumHydride |-> 14, UtriumOxide |-> 15, KeaniumHydride |-> 16,
     KeaniumOxide |-> 17, LemergiumHydride |-> 18, LemergiumOxide |-> 19, ZynthiumHydride |-> 20,
     ZynthiumOxide |-> 21, GhodiumHydride |-> 22, GhodiumOxide |-> 23, UtriumAcid |-> 24,
     UtriumAlkalide |-> 25, KeaniumAcid |-> 26, KeaniumAlkalide |-> 27, LemergiumAcid |-> 28,
     LemergiumAlkalide |-> 29, ZynthiumAcid |-> 30, ZynthiumAlkalide |-> 31, GhodiumAcid |-> 32,
     GhodiumAlkalide |-> 33, CatalyzedUtriumAcid |-> 34, CatalyzedUtriumAlkalide |-> 35, CatalyzedKeaniumAcid |-> 36,
     CatalyzedKeaniumAlkalide |-> 37, CatalyzedLemergiumAcid |-> 38, CatalyzedLemergiumAlkalide |-> 39, CatalyzedZynthiumAcid |-> 40,
     CatalyzedZynthiumAlkalide |-> 41, CatalyzedGhodiumAcid |-> 42, CatalyzedGhodiumAlkalide |-> 43, Ops |-> 44]

ResourceType == DOMAIN ResourceTypeValue

\* the resources of the first arm of reaction_time, which have no reaction time
NoReactionTime == {"Energy", "Power", "Hydrogen", "Oxygen", "Utrium", "Lemergium", "Keanium", "Zynthium", "Catalyst", "Ops"}

\* the values the match arms of reaction_time return
ReactionTimeArm ==
    [Hydroxide |-> 20, ZynthiumKeanite |-> 5, UtriumLemergite |-> 5, Ghodium |-> 5,
     UtriumHydride |-> 10, UtriumAcid |-> 5, CatalyzedUtriumAcid |-> 60, UtriumOxide |-> 10,
     UtriumAlkalide |-> 5, CatalyzedUtriumAlkalide |-> 60, KeaniumHydride |-> 10, KeaniumAcid |-> 5,
     CatalyzedKeaniumAcid |-> 60, KeaniumOxide |-> 10, KeaniumAlkalide |-> 5, CatalyzedKeaniumAlkalide |-> 60,
     LemergiumHydride |-> 15, LemergiumAcid |-> 10, CatalyzedLemergiumAcid |-> 65, LemergiumOxide |-> 10,
     LemergiumAlkalide |-> 5, CatalyzedLemergiumAlkalide |-> 60, ZynthiumHydride |-> 50, ZynthiumAcid |-> 100,
     CatalyzedZynthiumAcid |-> 180, ZynthiumOxide |-> 10, ZynthiumAlkalide |-> 5, CatalyzedZynthiumAlkalide |-> 80,
     GhodiumHydride |-> 10, GhodiumAcid |-> 15, CatalyzedGhodiumAcid |-> 80, GhodiumOxide |-> 10,
     GhodiumAlkalide |-> 30, CatalyzedGhodiumAlkalide |-> 150]

\* the REACTION_TIME entries quoted in the comment above each match arm
ReactionTimeComment ==
    [Hydroxide |-> 20, ZynthiumKeanite |-> 5, UtriumLemergite |-> 5, Ghodium |-> 5,
     UtriumHydride |-> 10, UtriumAcid |-> 5, CatalyzedUtriumAcid |-> 60, UtriumOxide |-> 10,
     UtriumAlkalide |-> 5, CatalyzedUtriumAlkalide |-> 60, KeaniumHydride |-> 10, KeaniumAcid |-> 5,
     CatalyzedKeaniumAcid |-> 60, KeaniumOxide |-> 10, KeaniumAlkalide |-> 5, CatalyzedKeaniumAlkalide |-> 60,
     LemergiumHydride |-> 15, LemergiumAcid |-> 10, CatalyzedLemergiumAcid |-> 65, LemergiumOxide |-> 10,
     LemergiumAlkalide |-> 5, CatalyzedLemergiumAlkalide |-> 60, ZynthiumHydride |-> 20, ZynthiumAcid |-> 40,
     CatalyzedZynthiumAcid |-> 160, ZynthiumOxide |-> 10, ZynthiumAlkalide |-> 5, CatalyzedZynthiumAlkalide |-> 60,
     GhodiumHydride |-> 10, GhodiumAcid |-> 15, CatalyzedGhodiumAcid |-> 80, GhodiumOxide |-> 10,
     GhodiumAlkalide |-> 30, CatalyzedGhodiumAlkalide |-> 150]

\* ResourceType::reaction_time
reaction_time(self) ==
    IF self \in NoReactionTime THEN None ELSE Some(ReactionTimeArm[self])

\* host numbers tried as resource codes lie in 0 .. MaxResourceCode
MaxResourceCode == 46

\* Value -> u32 (try_into): only a number that is a non-negative integer
ValueToU32(v) ==
    IF v.kind = "number" /\ v.class = "integral" /\ v.n >= 0 THEN Ok(v.n) ELSE Err("ConversionError")

\* the arms of the match in TryFrom<Value> for ResourceType: code -> variant
ResourceTypeDecodeArm ==
    [x \in 1 .. 43 |->
        CASE x = 1 -> "Energy"
          [] x = 2 -> "Power"
          [] x = 3 -> "Hydrogen"
          [] x = 4 -> "Oxygen"
          [] x = 5 -> "Utrium"
          [] x = 6 -> "Lemergium"
          [] x = 7 -> "Keanium"
          [] x = 8 -> "Zynthium"
          [] x = 9 -> "Catalyst"
          [] x = 10 -> "Ghodium"
          [] x = 11 -> "Hydroxide"
          [] x = 12 -> "ZynthiumKeanite"
          [] x = 13 -> "UtriumLemergite"
          [] x = 14 -> "UtriumHydride"
          [] x = 15 -> "UtriumOxide"
          [] x = 16 -> "KeaniumHydride"
          [] x = 17 -> "KeaniumOxide"
          [] x = 18 -> "LemergiumHydride"
          [] x = 19 -> "LemergiumOxide"
          [] x = 20 -> "ZynthiumHydride"
          [] x = 21 -> "ZynthiumOxide"
          [] x = 22 -> "GhodiumHydride"
          [] x = 23 -> "GhodiumOxide"
          [] x = 24 -> "UtriumAcid"
          [] x = 25 -> "UtriumAlkalide"
          [] x = 26 -> "KeaniumAcid"
          [] x = 27 -> "KeaniumAlkalide"
          [] x = 28 -> "LemergiumAcid"
          [] x = 29 -> "LemergiumAlkalide"
          [] x = 30 -> "ZynthiumAcid"
          [] x = 31 -> "ZynthiumAlkalide"
          [] x = 32 -> "GhodiumAcid"
          [] x = 33 -> "GhodiumAlkalide"
          [] x = 34 -> "CatalyzedUtriumAcid"
          [] x = 35 -> "CatalyzedUtriumAlkalide"
          [] x = 36 -> "CatalyzedKeaniumAcid"
          [] x = 37 -> "CatalyzedKeaniumAlkalide"
          [] x = 38 -> "CatalyzedLemergiumAcid"
          [] x = 39 -> "CatalyzedLemergiumAlkalide"
          [] x = 40 -> "CatalyzedZynthiumAcid"
          [] x = 41 -> "CatalyzedZynthiumAlkalide"
          [] x = 42 -> "CatalyzedGhodiumAcid"
          [] x = 43 -> "CatalyzedGhodiumAlkalide"]

\* impl TryFrom<Value> for ResourceType: a conversion error, a variant, or the
\* panic of the catch-all arm
ResourceType_try_from_Value(v) ==
    LET x == ValueToU32(v) IN
    IF ~x.ok THEN [kind |-> "err", val |-> x.val]
    ELSE IF x.val \in DOMAIN ResourceTypeDecodeArm THEN [kind |-> "ok", val |-> ResourceTypeDecodeArm[x.val]]
    ELSE [kind |-> "panic", val |-> "unknown resource type integer"]

\* host values tried as resource codes
ResourceHostValues ==
    {[kind |-> "number", class |-> "integral", n |-> x] : x \in -1 .. MaxResourceCode}
        \cup {[kind |-> "number", class |-> "fractional", n |-> 0], [kind |-> "string", class |-> "none", n |-> 0]}

ReactionTime ==
    \E r \in ResourceType :
        /\ op' = "reaction_time"
        /\ argv' = [op |-> "reaction_time", v |-> r]
        /\ resv' = [op |-> "reaction_time", v |-> reaction_time(r)]
        /\ ConstFrame

ResourceTypeTryFromValue ==
    \E v \in ResourceHostValues :
        /\ op' = "ResourceType::try_from(Value)"
        /\ argv' = [op |-> "ResourceType::try_from(Value)", v |-> v]
        /\ resv' = [op |-> "ResourceType::try_from(Value)", v |-> ResourceType_try_from_Value(v)]
        /\ ConstFrame

(***************************************************************************)
(* constants.rs: find codes, Part and ReturnCode::try_from(i32).           *)
(***************************************************************************)
\* a faulty variant: Tombstones reuses the code of Nukes
FindObjectValue_tombstones_117 ==
    [Creeps |-> 101, MyCreeps |-> 102, HostileCreeps |-> 103, SourcesActive |-> 104,
     Sources |-> 105, DroppedResources |-> 106, Structures |-> 107, MyStructures |-> 108,
     HostileStructures |-> 109, Flags |-> 110, ConstructionSites |-> 111, MySpawns |-> 112,
     HostileSpawns |-> 113, MyConstructionSites |-> 114, HostileConstructionSites |-> 115, Minerals |-> 116,
     Nukes |-> 117, Tombstones |-> 117]

\* enum FindObject with its #[repr(i32)] discriminants
FindObjectValue ==
    [Creeps |-> 101, MyCreeps |-> 102, HostileCreeps |-> 103, SourcesActive |-> 104,
     Sources |-> 105, DroppedResources |-> 106, Structures |-> 107, MyStructures |-> 108,
     HostileStructures |-> 109, Flags |-> 110, ConstructionSites |-> 111, MySpawns |-> 112,
     HostileSpawns |-> 113, MyConstructionSites |-> 114, HostileConstructionSites |-> 115, Minerals |-> 116,
     Nukes |-> 117, Tombstones |-> 118]

FindObject == DOMAIN FindObjectValue

\* the typed constants of the find module with the codes given to
\* typesafe_find_constants!
FindConstantValue ==
    [CREEPS |-> 101, MY_CREEPS |-> 102, HOSTILE_CREEPS |-> 103, SOURCES_ACTIVE |-> 104,
     SOURCES |-> 105, DROPPED_RESOURCES |-> 106, STRUCTURES |-> 107, MY_STRUCTURES |-> 108,
     HOSTILE_STRUCTURES |-> 109, FLAGS |-> 110, CONSTRUCTION_SITES |-> 111, MY_SPAWNS |-> 112,
     HOSTILE_SPAWNS |-> 113, MY_CONSTRUCTION_SITES |-> 114, HOSTILE_CONSTRUCTION_SITES |-> 115, MINERALS |-> 116,
     NUKES |-> 117, TOMBSTONES |-> 118, POWER_CREEPS |-> 119, MY_POWER_CREEPS |-> 120,
     HOSTILE_POWER_CREEPS |-> 121]

FindConstants == DOMAIN FindConstantValue

\* FindObject::find_code: *self as i32
find_code(self) == FindObjectValue[self]

\* enum Part with its #[repr(u32)] discriminants
PartValue ==
    [Move |-> 0, Work |-> 1, Carry |-> 2, Attack |-> 3,
     RangedAttack |-> 4, Tough |-> 5, Heal |-> 6, Claim |-> 7]

Part == DOMAIN PartValue

\* u32 inputs tried for Part lie in 0 .. MaxPartCode
MaxPartCode == 12

\* a faulty variant: the arm of Claim is missing
Part_try_from_u32_no_claim(x) ==
    CASE x = 0 -> Ok("Move")
      [] x = 1 -> Ok("Work")
      [] x = 2 -> Ok("Carry")
      [] x = 3 -> Ok("Attack")
      [] x = 4 -> Ok("RangedAttack")
      [] x = 5 -> Ok("Tough")
      [] x = 6 -> Ok("Heal")
      [] OTHER -> Err(Unit)

\* impl TryFrom<u32> for Part
Part_try_from_u32(x) ==
    CASE x = 0 -> Ok("Move")
      [] x = 1 -> Ok("Work")
      [] x = 2 -> Ok("Carry")
      [] x = 3 -> Ok("Attack")
      [] x = 4 -> Ok("RangedAttack")
      [] x = 5 -> Ok("Tough")
      [] x = 6 -> Ok("Heal")
      [] x = 7 -> Ok("Claim")
      [] OTHER -> Err(Unit)

\* a faulty variant: an undeclared code becomes Other, as in TryFrom<Value>
ReturnCode_try_from_i32_lenient(v) ==
    IF IsSome(from_i32(v)) THEN Ok(Unwrap(from_i32(v))) ELSE Ok("Other")

\* impl TryFrom<i32> for ReturnCode: from_i32(v).ok_or(v)
ReturnCode_try_from_i32(v) ==
    IF IsSome(from_i32(v)) THEN Ok(Unwrap(from_i32(v))) ELSE Err(v)

FindCode ==
    \E f \in FindObject :
        /\ op' = "find_code"
        /\ argv' = [op |-> "find_code", v |-> f]
        /\ resv' = [op |-> "find_code", v |-> find_code(f)]
        /\ ConstFrame

PartTryFrom ==
    \E x \in 0 .. MaxPartCode :
        /\ op' = "Part::try_from(u32)"
        /\ argv' = [op |-> "Part::try_from(u32)", v |-> x]
        /\ resv' = [op |-> "Part::try_from(u32)", v |-> Part_try_from_u32(x)]
        /\ ConstFrame

ReturnCodeTryFromI32 ==
    \E x \in -MaxCode .. MaxCode :
        /\ op' = "ReturnCode::try_from(i32)"
        /\ argv' = [op |-> "ReturnCode::try_from(i32)", v |-> x]
        /\ resv' = [op |-> "ReturnCode::try_from(i32)", v |-> ReturnCode_try_from_i32(x)]
        /\ ConstFrame

(***************************************************************************)
(* room.rs: Room::find, Room::look_for_at and Room::look_for_at_xy.  The   *)
(* host answers with an array of objects, or with no array at all.         *)
(***************************************************************************)
\* longest array the host answers with
MaxArrayLen == 3

HostItems == {"obj1", "obj2"}

HostArrays == UNION {[1 .. n -> HostItems] : n \in 0 .. MaxArrayLen}

\* T::convert_and_check_item: the host object as the typed item
convert_and_check_item(x) == [item |-> x]

\* a faulty variant: the last element of the array is left out
Room_find_short(array) ==
    [i \in 1 .. (IF Len(array) = 0 THEN 0 ELSE Len(array) - 1) |-> convert_and_check_item(array[i])]

\* Room::find: find_internal(..).iter().map(convert_and_check_item).collect()
Room_find(array) ==
    [i \in 1 .. Len(array) |-> convert_and_check_item(array[i])]

\* Room::look_for_at: look_for_at_internal(..).map(..).unwrap_or_else(Vec::new)
Room_look_for_at(answer) ==
    IF IsSome(answer)
    THEN [i \in 1 .. Len(Unwrap(answer)) |-> convert_and_check_item(Unwrap(answer)[i])]
    ELSE << >>

\* Room::look_for_at_xy: look_for_at_xy_internal(..).map(..).unwrap_or_else(Vec::new)
Room_look_for_at_xy(answer) ==
    IF IsSome(answer)
    THEN [i \in 1 .. Len(Unwrap(answer)) |-> convert_and_check_item(Unwrap(answer)[i])]
    ELSE << >>

Find ==
    \E a \in HostArrays :
        /\ op' = "Room::find"
        /\ argv' = [op |-> "Room::find", v |-> a]
        /\ resv' = [op |-> "Room::find", v |-> Room_find(a)]
        /\ ConstFrame

LookForAt ==
    \E a \in {None} \cup {Some(x) : x \in HostArrays} :
        /\ op' = "Room::look_for_at"
        /\ argv' = [op |-> "Room::look_for_at", v |-> a]
        /\ resv' = [op |-> "Room::look_for_at", v |-> Room_look_for_at(a)]
        /\ ConstFrame

LookForAtXy ==
    \E a \in {None} \cup {Some(x) : x \in HostArrays} :
        /\ op' = "Room::look_for_at_xy"
        /\ argv' = [op |-> "Room::look_for_at_xy", v |-> a]
        /\ resv' = [op |-> "Room::look_for_at_xy", v |-> Room_look_for_at_xy(a)]
        /\ ConstFrame

ConstNext ==
    \/ AsResult
    \/ TryFromValue
    \/ TryFromNumber
    \/ NegDirection
    \/ ControllerLevels
    \/ ReactionTime
    \/ ResourceTypeTryFromValue
    \/ FindCode
    \/ PartTryFrom
    \/ ReturnCodeTryFromI32
    \/ Find
    \/ LookForAt
    \/ LookForAtXy

ConstSpec == Init /\ [][ConstNext]_vars

(***************************************************************************)
(* Properties of constants.rs, checked under ConstSpec.                    *)
(***************************************************************************)
\* C7: as_result turns ReturnCode::Ok into Ok(()) and every other code c,
\* ReturnCode::Other included, into Err(c) with the same code.
C7_AsResult ==
    op = "as_result" =>
        IF arg = "Ok" THEN res.ok /\ res.val = Unit
        ELSE ~res.ok /\ res.val = arg

\* C7 witness: as_result applied to ReturnCode::Other
C7_Witness ==
    /\ op = "as_result"
    /\ arg = "Other"
    /\ res = Err("Other")

\* C8: converting a host value to ReturnCode succeeds on every integer (within
\* i32): a declared code gives its variant, any other integer gives Other;
\* only a value that does not convert to i32 gives a ConversionError; the
\* conversion from Number agrees with the one from Value.
C8_TryFromValueTotalOnIntegers ==
    /\ op = "ReturnCode::try_from(Value)" =>
          IF arg.kind = "number" /\ arg.class = "integral"
          THEN /\ res.ok
               /\ res.val \in ReturnCode
               /\ \A c \in ReturnCode : ReturnCodeValue[c] = arg.n => res.val = c
               /\ (\A c \in ReturnCode : ReturnCodeValue[c] # arg.n) => res.val = "Other"
               /\ arg.n = -13 => res.val = "Other"
          ELSE ~res.ok /\ res.val = "ConversionError"
    /\ op = "ReturnCode::try_from(Number)" =>
          /\ res = ReturnCode_try_from_Value(arg)
          /\ res.ok <=> arg.class = "integral"
          /\ (res.ok /\ \A c \in ReturnCode : ReturnCodeValue[c] # arg.n) => res.val = "Other"

\* C8 witness: the undeclared code -13 converted from a host value
C8_Witness ==
    /\ op = "ReturnCode::try_from(Value)"
    /\ arg.kind = "number"
    /\ arg.class = "integral"
    /\ arg.n = -13
    /\ res = Ok("Other")

\* C9: negation gives the opposite direction: code ((c + 3) mod 8) + 1 for
\* code c, it is an involution and it has no fixed point.
C9_NegOpposite ==
    op = "neg" =>
        /\ res \in Direction
        /\ DirectionValue[res] = ((DirectionValue[arg] + 3) % 8) + 1
        /\ neg(res) = arg
        /\ res # arg
        /\ <<arg, res>> \in {<<"Top", "Bottom">>, <<"Bottom", "Top">>, <<"TopRight", "BottomLeft">>, <<"BottomLeft", "TopRight">>,
                            <<"Right", "Left">>, <<"Left", "Right">>, <<"BottomRight", "TopLeft">>, <<"TopLeft", "BottomRight">>}

\* C9 witness: the negation that wraps around, TopLeft (8) to BottomRight (4)
C9_Witness ==
    /\ op = "neg"
    /\ arg = "TopLeft"
    /\ res = "BottomRight"

\* C10: controller_levels returns 0 for every level above 7 and a non-zero
\* progress threshold for every accepted level 0 through 7.
C10_ControllerLevelsAccepted ==
    op = "controller_levels" =>
        /\ arg > 7 => res = 0
        /\ arg \in 0 .. 7 => res # 0

(***************************************************************************)
(* Properties of the tables, decoders and Room queries.                    *)
(***************************************************************************)
\* C11: reaction_time returns, for every compound resource, Some of the
\* REACTION_TIME value quoted in the comment beside its arm (ZH 20, ZH2O 40,
\* XZH2O 160, XZHO2 60 among them).
C11_ReactionTimeAsCommented ==
    op = "reaction_time" /\ arg \notin NoReactionTime =>
        res = Some(ReactionTimeComment[arg])

\* C12: the maxRooms value as_js_options forwards to the host is at most 16,
\* whatever was passed to max_rooms.
C12_MaxRoomsAtMost16 ==
    Serialized /\ "maxRooms" \in DOMAIN js_options => js_options["maxRooms"] <= 16

\* C14: find, look_for_at and look_for_at_xy return one converted item per
\* element of the host's array, in the same order and of the same length;
\* look_for_at and look_for_at_xy return the empty Vec when the host gives
\* no array.
C14_OneItemPerElement ==
    /\ op = "Room::find" =>
          /\ Len(res) = Len(arg)
          /\ \A i \in 1 .. Len(arg) : res[i] = [item |-> arg[i]]
    /\ op \in {"Room::look_for_at", "Room::look_for_at_xy"} =>
          IF Len(arg) = 1
          THEN /\ Len(res) = Len(arg[1])
               /\ \A i \in 1 .. Len(arg[1]) : res[i] = [item |-> arg[1][i]]
          ELSE res = << >>

\* C14 witness: find on a full-length array whose elements differ
C14_Witness ==
    /\ op = "Room::find"
    /\ arg = <<"obj1", "obj2", "obj1">>
    /\ res = <<[item |-> "obj1"], [item |-> "obj2"], [item |-> "obj1"]>>

\* the find-module constant of the same name as a FindObject variant
SameNameConstant ==
    [Creeps |-> "CREEPS", MyCreeps |-> "MY_CREEPS", HostileCreeps |-> "HOSTILE_CREEPS",
     SourcesActive |-> "SOURCES_ACTIVE", Sources |-> "SOURCES", DroppedResources |-> "DROPPED_RESOURCES",
     Structures |-> "STRUCTURES", MyStructures |-> "MY_STRUCTURES", HostileStructures |-> "HOSTILE_STRUCTURES",
     Flags |-> "FLAGS", ConstructionSites |-> "CONSTRUCTION_SITES", MySpawns |-> "MY_SPAWNS",
     HostileSpawns |-> "HOSTILE_SPAWNS", MyConstructionSites |-> "MY_CONSTRUCTION_SITES", HostileConstructionSites |-> "HOSTILE_CONSTRUCTION_SITES",
     Minerals |-> "MINERALS", Nukes |-> "NUKES", Tombstones |-> "TOMBSTONES"]

\* C15: the codes of the FindObject variants are pairwise distinct, so are
\* the codes of the find-module constants, every FindObject variant has the
\* code of the constant of the same name (101 .. 118), and find_code of a
\* FindObject returns its declared code.
C15_FindCodesMirrored ==
    /\ \A a \in FindObject, b \in FindObject : a # b => FindObjectValue[a] # FindObjectValue[b]
    /\ \A a \in FindConstants, b \in FindConstants : a # b => FindConstantValue[a] # FindConstantValue[b]
    /\ \A f \in FindObject : SameNameConstant[f] \in FindConstants /\ FindObjectValue[f] = FindConstantValue[SameNameConstant[f]]
    /\ {FindObjectValue[f] : f \in FindObject} = 101 .. 118
    /\ op = "find_code" =>
          /\ res = FindConstantValue[SameNameConstant[arg]]
          /\ arg = "Creeps" => res = 101
          /\ arg = "Tombstones" => res = 118

\* C15 witness: find_code of the last variant, Tombstones
C15_Witness ==
    /\ op = "find_code"
    /\ arg = "Tombstones"
    /\ res = 118

\* C16: decoding the numeric code of any ResourceType variant r (1 .. 44)
\* from a host value returns Ok(r) and does not panic.
C16_ResourceTypeRoundTrip ==
    op = "ResourceType::try_from(Value)" /\ arg.kind = "number" /\ arg.class = "integral" =>
        \A r \in ResourceType :
            ResourceTypeValue[r] = arg.n => res = [kind |-> "ok", val |-> r]

DeclaredReturnCodes == {0, -1, -2, -3, -4, -5, -6, -7, -8, -9, -10, -11, -12, -14, -15, 42}

\* C17: ReturnCode::try_from(i32) succeeds exactly on the 16 declared codes
\* and gives back the variant with that code; on any other integer, -13
\* included, it returns Err of the input; where it succeeds, the conversion
\* of the same integer from a host value gives the same variant.
C17_TryFromI32Exact ==
    op = "ReturnCode::try_from(i32)" =>
        /\ res.ok <=> arg \in DeclaredReturnCodes
        /\ res.ok => /\ res.val \in ReturnCode
                      /\ ReturnCodeValue[res.val] = arg
                      /\ ReturnCode_try_from_Value([kind |-> "number", class |-> "integral", n |-> arg]) = Ok(res.val)
        /\ ~res.ok => res.val = arg
        /\ \A c \in ReturnCode : arg = ReturnCodeValue[c] => res.ok /\ res.val = c
        /\ Cardinality(DeclaredReturnCodes) = 16

\* C17 witness: the undeclared code -13 is handed back as the error
C17_Witness ==
    /\ op = "ReturnCode::try_from(i32)"
    /\ arg = -13
    /\ ~res.ok
    /\ res.val = -13

\* C18: Part::try_from(u32) always returns: Ok(p) with code x exactly when
\* x <= 7, so every Part round-trips, and Err(()) for every x >= 8.
C18_PartTryFromTotal ==
    op = "Part::try_from(u32)" =>
        /\ res.ok \in BOOLEAN
        /\ res.ok <=> arg <= 7
        /\ res.ok => res.val \in Part /\ PartValue[res.val] = arg
        /\ ~res.ok => res.val = Unit
        /\ \A p \in Part : arg = PartValue[p] => res = Ok(p)

\* C18 witness: the last accepted code, 7, decoded as Claim
C18_Witness ==
    /\ op = "Part::try_from(u32)"
    /\ arg = 7
    /\ res = Ok("Claim")
====
